---- MODULE Spec2Model ----
(***************************************************************************)
(* bim_inner_join: a k-way sorted-merge join of .bim variant files.        *)
(* The model follows src/src/bim_inner_join.cpp: the Variant comparisons,  *)
(* the line reader (getline + field extraction, eofbit), the matcher       *)
(* check_match with its output writes, and the merge loop of main, one     *)
(* step per stream read so that the order of the reads inside              *)
(* read_variants / read_variants_until_max is visible.                     *)
(***************************************************************************)
EXTENDS Integers, Sequences, FiniteSets, TLC

VARIABLES
    n_files,        \* argc - 1
    files,          \* the input files: stream index -> [lines, nl]
    readable,       \* the streams whose file can be opened for reading
    out_fail,       \* 0, or the rank in Log::open of the first output file that cannot be opened
    pos,            \* stream index -> number of lines getline has extracted
    eofbit,         \* stream index -> files[i].eof()
    cur,            \* Variant cur[n_files]
    names_lists,    \* log.names_lists[i]: the identifiers written, in order
    matches_bim,    \* log.matches_bim: the lines written, in order
    mismatches_bim, \* log.mismatches_bim: the lines written, in order
    pc,             \* position in main
    idx,            \* loop index i of the read pass in progress
    max_variant,    \* index of the element of cur that max_variant points to
    exit_code,      \* value returned by main (-1 while running)
    log_open,       \* log.open has been called (Log::_open)
    out_open,       \* number of output files log.open has opened
    reported,       \* the error main has reported ("" for none)
    is_open,        \* the input streams main has opened
    iters,          \* number of merge-loop iterations begun (saturates one past the budget)
    it_kind,        \* outcome of the last check_match: "none", "match", "mismatch"
    it_cur,         \* the frontier the last check_match was given
    it_pos,         \* pos when the last check_match ran
    it_names,       \* names_lists when the last check_match ran
    it_matches,     \* matches_bim when the last check_match ran
    it_seen,        \* every frontier check_match has been given so far
    arg_a,          \* first operand of the comparison under test
    arg_b,          \* second operand of the comparison under test
    result,         \* <<value>> the comparison returned, <<>> before the call
    cmp,            \* <<values>> of the locus comparisons of arg_a and arg_b
    sym             \* <<values>> of alleles_eq on (a, b), (b, a) and (a, a)

vars == <<n_files, files, readable, out_fail, pos, eofbit, cur, names_lists, matches_bim,
          mismatches_bim, pc, idx, max_variant, exit_code, log_open, out_open,
          reported, is_open, iters,
          it_kind, it_cur, it_pos, it_names, it_matches, it_seen,
          arg_a, arg_b, result, cmp, sym>>

(***************************************************************************)
(* Bounds and input pools                                                  *)
(***************************************************************************)
\* longest input file, in lines
MaxLen == 2

\* loci of the input records: chromosome and position order them oppositely
Loci == {[chrom |-> 1, position |-> 200], [chrom |-> 2, position |-> 100]}

\* allele pairs of the input records: A/0 and A/G are compatible, A/G and
\* A/C are not, A/0 and A/C are
Genotypes == {<<"A", "0">>, <<"A", "G">>, <<"A", "C">>}

\* allele pairs of the records of the files with empty lines or no final newline
PlainGenotypes == {<<"A", "G">>, <<"A", "C">>}

\* alleles of the operands of the comparison specification
Alleles == {"0", "A", "C", "G", "T"}

\* identifier of line j (1-based) of stream i (0-based)
NameTable == << <<"rs1a", "rs2a", "rs3a", "rs4a">>,
                <<"rs1b", "rs2b", "rs3b", "rs4b">>,
                <<"rs1c", "rs2c", "rs3c", "rs4c">> >>

\* the genetic-distance column of input line j
CmOf(j) == IF j % 2 = 1 THEN "0.5" ELSE "0"

(***************************************************************************)
(* struct Variant                                                          *)
(***************************************************************************)
Variant(c, nm, p, x, y) ==
    [chrom |-> c, name |-> nm, position |-> p, a1 |-> x, a2 |-> y]

\* operator==
op_eq(this, that) ==
    this.chrom = that.chrom /\ this.position = that.position

\* operator!=
op_ne(this, that) == ~op_eq(this, that)

\* operator< with <= on the positions
op_lt_OrEqual(this, that) ==
    IF this.chrom # that.chrom
    THEN this.chrom < that.chrom
    ELSE this.position <= that.position

\* operator<
op_lt(this, that) ==
    IF this.chrom # that.chrom
    THEN this.chrom < that.chrom
    ELSE this.position < that.position

\* operator>
op_gt(this, that) ==
    IF this.chrom # that.chrom
    THEN this.chrom > that.chrom
    ELSE this.position > that.position

\* the unordered_set after the four conditional inserts
allele_set(this, that) ==
    LET s1 == IF this.a1 # "0" THEN {this.a1} ELSE {}
        s2 == IF this.a2 # "0" THEN s1 \cup {this.a2} ELSE s1
        s3 == IF that.a1 # "0" THEN s2 \cup {that.a1} ELSE s2
        s4 == IF that.a2 # "0" THEN s3 \cup {that.a2} ELSE s3
    IN s4

\* alleles_eq skipping the "0" test on the second allele of the argument
alleles_eq_ArgumentUnchecked(this, that) ==
    LET s1 == IF this.a1 # "0" THEN {this.a1} ELSE {}
        s2 == IF this.a2 # "0" THEN s1 \cup {this.a2} ELSE s1
        s3 == IF that.a1 # "0" THEN s2 \cup {that.a1} ELSE s2
        s4 == s3 \cup {that.a2}
    IN op_eq(this, that) /\ Cardinality(s4) <= 2

\* alleles_eq with "0" counted as an allele
alleles_eq_CountsSentinel(this, that) ==
    /\ op_eq(this, that)
    /\ Cardinality({this.a1, this.a2, that.a1, that.a2}) <= 2

alleles_eq(this, that) ==
    LET locus_match == op_eq(this, that)
        alleles_match == Cardinality(allele_set(this, that)) <= 2
    IN locus_match /\ alleles_match

(***************************************************************************)
(* Line reader                                                             *)
(***************************************************************************)
\* ss >> v.chrom >> v.name >> cm >> v.position >> v.a1 >> v.a2
parse_line(line) == Variant(line[1], line[2], line[4], line[5], line[6])

\* write_bim_line: the six columns written for v
write_bim_line(v) == <<v.chrom, v.name, "0", v.position, v.a1, v.a2>>

\* getline extracting two lines at a time
getline_TwoLines(f, p) ==
    LET has == p < Len(f.lines)
        q == IF p + 2 <= Len(f.lines) THEN p + 2 ELSE Len(f.lines)
    IN [line |-> IF has THEN f.lines[q] ELSE <<>>,
        pos  |-> IF has THEN q ELSE p,
        eof  |-> IF has THEN (q = Len(f.lines) /\ ~f.nl) ELSE TRUE]

\* getline(file, line) on a stream that has extracted p lines: the line, the
\* new count, and whether the extraction ran into the end of the file
getline(f, p) ==
    LET has == p < Len(f.lines)
    IN [line |-> IF has THEN f.lines[p + 1] ELSE <<>>,
        pos  |-> IF has THEN p + 1 ELSE p,
        eof  |-> IF has THEN (p + 1 = Len(f.lines) /\ ~f.nl) ELSE TRUE]

\* read_variant filling the cursor on the first read of a stream only
read_variant_CursorKept(f, p, v) ==
    LET g == getline(f, p)
    IN [pos |-> g.pos,
        eof |-> g.eof,
        v   |-> IF g.line = <<>> \/ p > 0 THEN v ELSE parse_line(g.line),
        ok  |-> g.line # <<>>]

\* read_variant(files[i], cur[i]): the stream and cursor after the call
read_variant(f, p, v) ==
    LET g == getline(f, p)
    IN [pos |-> g.pos,
        eof |-> g.eof,
        v   |-> IF g.line = <<>> THEN v ELSE parse_line(g.line),
        ok  |-> g.line # <<>>]

(***************************************************************************)
(* max, any_eof, check_match                                               *)
(***************************************************************************)
\* the scan of max replacing the choice on >= (the position compared with >=)
RECURSIVE max_scan_LastWins(_, _, _, _)
max_scan_LastWins(li, n, i, greatest) ==
    IF i >= n THEN greatest
    ELSE max_scan_LastWins(li, n, i + 1,
                           IF ~op_lt(li[i], li[greatest]) THEN i ELSE greatest)

RECURSIVE max_scan(_, _, _, _)
max_scan(li, n, i, greatest) ==
    IF i >= n THEN greatest
    ELSE max_scan(li, n, i + 1, IF op_gt(li[i], li[greatest]) THEN i ELSE greatest)

\* max(li, n): the index of the element the returned pointer refers to
max(li, n) == max_scan(li, n, 1, 0)

\* any_eof returning true only when every stream is at its end
any_eof_AllEof(e, n) == \A i \in 0..(n - 1) : e[i]

any_eof(e, n) == \E i \in 0..(n - 1) : e[i]

\* check_match comparing every pair of records
all_match_Pairwise(li, n) ==
    \A i \in 0..(n - 1) : \A j \in 0..(n - 1) : alleles_eq(li[i], li[j])

\* check_match comparing loci only
all_match_LocusOnly(li, n) ==
    \A i \in 1..(n - 1) : op_eq(li[i], li[0])

\* check_match: the value of all_match after the comparison loop
all_match(li, n) ==
    LET first == li[0]
    IN \A i \in 1..(n - 1) : alleles_eq(li[i], first)

no_zero(v) == v.a1 # "0" /\ v.a2 # "0"

\* check_match always writing record 0
bim_index_First(li, n) == 0

\* check_match: the index of the record written to matches_bim
bim_index(li, n) ==
    IF \E i \in 0..(n - 1) : no_zero(li[i])
    THEN CHOOSE i \in 0..(n - 1) :
            no_zero(li[i]) /\ \A j \in 0..(i - 1) : ~no_zero(li[j])
    ELSE 0

\* check_match with the names loop starting at 1
names_after_SkipFirst(nl, li, n) ==
    [i \in 0..(n - 1) |-> IF i = 0 THEN nl[i] ELSE Append(nl[i], li[i].name)]

\* check_match writing the name of record 0 to every names list
names_after_FirstName(nl, li, n) ==
    [i \in 0..(n - 1) |-> Append(nl[i], li[0].name)]

\* check_match: names_lists after the writes of a full match
names_after(nl, li, n) ==
    [i \in 0..(n - 1) |-> Append(nl[i], li[i].name)]

\* check_match: mismatches_bim after the else branch (the write is commented out)
mismatch_log(mm, li) == mm

(***************************************************************************)
(* Input files                                                             *)
(***************************************************************************)
locus_le(a, b) == ~op_gt(a, b)

\* lines of a file: <<>> is an empty line, a 6-tuple is a record
RecordShapes(genos) == {[blank |-> FALSE, locus |-> l, geno |-> g] : l \in Loci, g \in genos}
LineShapes(genos) == RecordShapes(genos) \cup {[blank |-> TRUE]}

SortedShapes(s) ==
    \A a \in 1..Len(s) : \A b \in 1..Len(s) :
        (a < b /\ ~s[a].blank /\ ~s[b].blank) => locus_le(s[a].locus, s[b].locus)

ShapeSeqs(maxlen, shapes) ==
    UNION {[1..k -> shapes] : k \in 0..maxlen}

LineOf(i, j, sh) ==
    IF sh.blank THEN <<>>
    ELSE <<sh.locus.chrom, NameTable[i + 1][j], CmOf(j), sh.locus.position,
           sh.geno[1], sh.geno[2]>>

\* files of stream i: sorted shape sequences; a file whose last line is
\* not terminated by a newline has a non-empty last line
FilesOf(i, maxlen, shapes, nls) ==
    {[lines |-> [j \in 1..Len(s) |-> LineOf(i, j, s[j])], nl |-> t] :
        <<s, t>> \in {x \in ShapeSeqs(maxlen, shapes) \X nls :
                        /\ SortedShapes(x[1])
                        /\ (~x[2] => (Len(x[1]) > 0 /\ ~x[1][Len(x[1])].blank))}}

RecordsIn(f) == Cardinality({j \in 1..Len(f.lines) : f.lines[j] # <<>>})

RECURSIVE SumRecords(_, _)
SumRecords(fs, n) == IF n = 0 THEN 0 ELSE RecordsIn(fs[n - 1]) + SumRecords(fs, n - 1)

NoBlankLines(fs, n) ==
    \A i \in 0..(n - 1) : \A j \in 1..Len(fs[i].lines) : fs[i].lines[j] # <<>>

\* Variant cur[n_files] before the first read: the strings are empty, chrom
\* and position hold whatever the stack held (before every locus of the
\* files, at one of them, or after all of them)
Indeterminate ==
    {Variant(c, "", p, "", "") : <<c, p>> \in {<<0, 0>>, <<1, 200>>, <<3, 50>>}}
Unread == Variant(0, "", 0, "", "")

FirstLineBlank(f) == Len(f.lines) > 0 /\ f.lines[1] = <<>>

(***************************************************************************)
(* Initial states: the program is started on n_files input files           *)
(***************************************************************************)
NoVariant == Variant(0, "", 0, "", "")

\* files of records only, every line ended by a newline
RecordFiles(i, maxlen) == FilesOf(i, maxlen, RecordShapes(Genotypes), {TRUE})

\* files that may hold empty lines and may lack the final newline
AnyFiles(i, maxlen) == FilesOf(i, maxlen, LineShapes(PlainGenotypes), BOOLEAN)

\* fewer than two files (the usage error); two streams of at most MaxLen
\* lines; three streams of records only, one line shorter
GivenFiles(fs) ==
    \/ fs = <<>>
    \/ \E f0 \in RecordFiles(0, 1) : fs = (0 :> f0)
    \/ \E f0 \in RecordFiles(0, MaxLen) : \E f1 \in RecordFiles(1, MaxLen) :
          fs = (0 :> f0 @@ 1 :> f1)
    \/ \E f0 \in AnyFiles(0, MaxLen) : \E f1 \in AnyFiles(1, MaxLen) :
          fs = (0 :> f0 @@ 1 :> f1)
    \/ \E f0 \in RecordFiles(0, MaxLen - 1) :
       \E f1 \in RecordFiles(1, MaxLen - 1) :
       \E f2 \in RecordFiles(2, MaxLen - 1) :
          fs = (0 :> f0 @@ 1 :> f1 @@ 2 :> f2)

\* a file of at most one record, newline-terminated
ShortFile(i) == FilesOf(i, 1, RecordShapes(PlainGenotypes), {TRUE})

\* up to three files of at most one record each
ShortFiles(fs) ==
    \/ fs = <<>>
    \/ \E f0 \in ShortFile(0) : fs = (0 :> f0)
    \/ \E f0 \in ShortFile(0) : \E f1 \in ShortFile(1) :
          fs = (0 :> f0 @@ 1 :> f1)
    \/ \E f0 \in ShortFile(0) : \E f1 \in ShortFile(1) : \E f2 \in ShortFile(2) :
          fs = (0 :> f0 @@ 1 :> f1 @@ 2 :> f2)

Streams == 0..(n_files - 1)

\* main before its first statement, given the files fs
Started(fs) ==
    /\ files = fs
    /\ n_files = Cardinality(DOMAIN fs)
    /\ pos = [i \in DOMAIN fs |-> 0]
    /\ eofbit = [i \in DOMAIN fs |-> FALSE]
    /\ cur \in [DOMAIN fs -> Indeterminate \cup {Unread}]
    /\ \A i \in DOMAIN fs :
          IF FirstLineBlank(fs[i]) THEN cur[i] \in Indeterminate ELSE cur[i] = Unread
    /\ names_lists = [i \in DOMAIN fs |-> <<>>]
    /\ matches_bim = <<>>
    /\ mismatches_bim = <<>>
    /\ idx = 0
    /\ max_variant = 0
    /\ exit_code = -1
    /\ log_open = FALSE
    /\ out_open = 0
    /\ reported = ""
    /\ is_open = {}
    /\ iters = 0
    /\ it_kind = "none"
    /\ it_cur = cur
    /\ it_pos = pos
    /\ it_names = names_lists
    /\ it_matches = matches_bim
    /\ it_seen = {}

\* what can be opened: everything for the files of GivenFiles; for files
\* of at most one record any set of missing input files and any first
\* output file that cannot be created
GivenAccess(fs, rd, of) ==
    \/ /\ GivenFiles(fs)
       /\ rd = DOMAIN fs
       /\ of = 0
    \/ /\ ShortFiles(fs)
       /\ rd \in SUBSET (DOMAIN fs)
       /\ of \in 0..(Cardinality(DOMAIN fs) + 2)
       /\ rd # DOMAIN fs \/ of # 0

Init ==
    /\ GivenAccess(files, readable, out_fail)
    /\ Started(files)
    /\ pc = "start"
    /\ arg_a = NoVariant
    /\ arg_b = NoVariant
    /\ result = <<>>
    /\ cmp = <<>>
    /\ sym = <<>>

(***************************************************************************)
(* main                                                                    *)
(***************************************************************************)
history == <<iters, it_kind, it_cur, it_pos, it_names, it_matches, it_seen>>
operands == <<arg_a, arg_b, result, cmp, sym>>
outputs == <<names_lists, matches_bim, mismatches_bim>>

\* main, line 275 with the comparison written as argc < 2
usage_error_LessThanTwo(argc) == argc < 2

\* main, line 275: the test that leads to print_usage
usage_error(argc) == argc <= 2

\* Log::open counting a file that failed to open as opened
opened_outputs_CountsFailed(n, fail) == IF fail = 0 THEN n + 2 ELSE fail

\* Log::open(n): the number of output files opened, in the order
\* bij_names_1..n, bij_matches, bij_mismatches, up to the first that fails
opened_outputs(n, fail) == IF fail = 0 THEN n + 2 ELSE fail - 1

\* the loop of main, lines 279-287, going on after a file failed to open
opened_inputs_All(n, rd) == 0..(n - 1)

\* the loop of main, lines 279-287: the streams opened before the first
\* file that cannot be opened
opened_inputs(n, rd) == {i \in 0..(n - 1) : \A j \in 0..i : j \in rd}

\* main, lines 262-271: log.open throws and main returns 1
LogOpenFails ==
    /\ pc = "start"
    /\ out_fail # 0
    /\ log_open' = TRUE
    /\ out_open' = opened_outputs(n_files, out_fail)
    /\ reported' = "could_not_write"
    /\ pc' = "exit"
    /\ exit_code' = 1
    /\ UNCHANGED <<n_files, files, readable, out_fail, is_open, pos, eofbit, cur,
                   outputs, idx, max_variant, history, operands>>

\* main, lines 262-277: the log is opened, then fewer than two input files
\* are found and print_usage's value is returned
Usage ==
    /\ pc = "start"
    /\ out_fail = 0
    /\ usage_error(n_files + 1)
    /\ log_open' = TRUE
    /\ out_open' = opened_outputs(n_files, out_fail)
    /\ reported' = "usage"
    /\ pc' = "exit"
    /\ exit_code' = 1
    /\ UNCHANGED <<n_files, files, readable, out_fail, is_open, pos, eofbit, cur,
                   outputs, idx, max_variant, history, operands>>

\* main, lines 262-287: the log is opened, an input file cannot be opened
\* and main returns 1
OpenFails ==
    /\ pc = "start"
    /\ out_fail = 0
    /\ ~usage_error(n_files + 1)
    /\ opened_inputs(n_files, readable) # Streams
    /\ log_open' = TRUE
    /\ out_open' = opened_outputs(n_files, out_fail)
    /\ is_open' = opened_inputs(n_files, readable)
    /\ reported' = "could_not_find"
    /\ pc' = "exit"
    /\ exit_code' = 1
    /\ UNCHANGED <<n_files, files, readable, out_fail, pos, eofbit, cur,
                   outputs, idx, max_variant, history, operands>>

\* main, lines 262-289: the log and the input files are opened
OpenFiles ==
    /\ pc = "start"
    /\ out_fail = 0
    /\ ~usage_error(n_files + 1)
    /\ opened_inputs(n_files, readable) = Streams
    /\ log_open' = TRUE
    /\ out_open' = opened_outputs(n_files, out_fail)
    /\ is_open' = opened_inputs(n_files, readable)
    /\ pc' = "init_read"
    /\ idx' = 0
    /\ UNCHANGED <<n_files, files, readable, out_fail, reported, pos, eofbit, cur,
                   outputs, max_variant, exit_code, history, operands>>

\* one turn of the loop of read_variants
ReadOne(i) ==
    IF ~eofbit[i]
    THEN LET r == read_variant(files[i], pos[i], cur[i])
         IN /\ pos' = [pos EXCEPT ![i] = r.pos]
            /\ eofbit' = [eofbit EXCEPT ![i] = r.eof]
            /\ cur' = [cur EXCEPT ![i] = r.v]
    ELSE UNCHANGED <<pos, eofbit, cur>>

\* one turn of the loop of read_variants_until_max
ReadOneUntilMax(i) ==
    IF op_lt(cur[i], cur[max_variant]) /\ ~eofbit[i]
    THEN LET r == read_variant(files[i], pos[i], cur[i])
         IN /\ pos' = [pos EXCEPT ![i] = r.pos]
            /\ eofbit' = [eofbit EXCEPT ![i] = r.eof]
            /\ cur' = [cur EXCEPT ![i] = r.v]
    ELSE UNCHANGED <<pos, eofbit, cur>>

NextIndex ==
    IF idx + 1 < n_files
    THEN idx' = idx + 1 /\ pc' = pc
    ELSE idx' = 0 /\ pc' = "loop"

\* main, line 290: read_variants(files, cur, n_files)
InitialRead ==
    /\ pc = "init_read"
    /\ ReadOne(idx)
    /\ NextIndex
    /\ UNCHANGED <<n_files, files, readable, out_fail, log_open, out_open, reported,
                   is_open, outputs, max_variant, exit_code,
                   history, operands>>

\* main, line 292: the loop condition fails
LoopExit ==
    /\ pc = "loop"
    /\ any_eof(eofbit, n_files)
    /\ pc' = "done"
    /\ exit_code' = 0
    /\ UNCHANGED <<n_files, files, readable, out_fail, log_open, out_open, reported,
                   is_open, pos, eofbit, cur, outputs, idx,
                   max_variant, history, operands>>

Snapshot(kind) ==
    /\ iters' = IF iters <= SumRecords(files, n_files) THEN iters + 1 ELSE iters
    /\ it_kind' = kind
    /\ it_cur' = cur
    /\ it_pos' = pos
    /\ it_names' = names_lists
    /\ it_matches' = matches_bim
    /\ it_seen' = it_seen \cup {cur}

\* main, lines 292-293 and 305-306: check_match returns true
CheckMatchTrue ==
    /\ pc = "loop"
    /\ ~any_eof(eofbit, n_files)
    /\ all_match(cur, n_files)
    /\ names_lists' = names_after(names_lists, cur, n_files)
    /\ matches_bim' = Append(matches_bim, write_bim_line(cur[bim_index(cur, n_files)]))
    /\ Snapshot("match")
    /\ pc' = "read_all"
    /\ idx' = 0
    /\ UNCHANGED <<n_files, files, readable, out_fail, log_open, out_open, reported,
                   is_open, pos, eofbit, cur,
                   mismatches_bim, max_variant,
                   exit_code, operands>>

\* main, lines 292-299: check_match returns false, max is taken
CheckMatchFalse ==
    /\ pc = "loop"
    /\ ~any_eof(eofbit, n_files)
    /\ ~all_match(cur, n_files)
    /\ mismatches_bim' = mismatch_log(mismatches_bim, cur)
    /\ max_variant' = max(cur, n_files)
    /\ Snapshot("mismatch")
    /\ pc' = "read_until_max"
    /\ idx' = 0
    /\ UNCHANGED <<n_files, files, readable, out_fail, log_open, out_open, reported,
                   is_open, pos, eofbit, cur,
                   names_lists, matches_bim,
                   exit_code, operands>>

\* main, line 299: read_variants_until_max(files, cur, *max_variant, n_files)
ReadUntilMax ==
    /\ pc = "read_until_max"
    /\ ReadOneUntilMax(idx)
    /\ NextIndex
    /\ UNCHANGED <<n_files, files, readable, out_fail, log_open, out_open, reported,
                   is_open, outputs, max_variant, exit_code,
                   history, operands>>

\* main, line 306: read_variants(files, cur, n_files)
ReadAll ==
    /\ pc = "read_all"
    /\ ReadOne(idx)
    /\ NextIndex
    /\ UNCHANGED <<n_files, files, readable, out_fail, log_open, out_open, reported,
                   is_open, outputs, max_variant, exit_code,
                   history, operands>>

Next ==
    \/ LogOpenFails
    \/ Usage
    \/ OpenFails
    \/ OpenFiles
    \/ InitialRead
    \/ LoopExit
    \/ CheckMatchTrue
    \/ CheckMatchFalse
    \/ ReadUntilMax
    \/ ReadAll

Spec == Init /\ [][Next]_vars

(***************************************************************************)
(* The comparisons of Variant on their own: two records are chosen and     *)
(* the member function is called on them                                   *)
(***************************************************************************)
Operands ==
    {Variant(c, "rs", p, x, y) :
        c \in {1, 2}, p \in {100, 200}, x \in Alleles, y \in Alleles}

\* the second operand may carry another identifier
OtherOperands ==
    {Variant(c, nm, p, x, y) :
        c \in {1, 2}, nm \in {"rs", "rsb"}, p \in {100, 200},
        x \in Alleles, y \in Alleles}

InitCompare ==
    /\ Started(<<>>)
    /\ readable = {}
    /\ out_fail = 0
    /\ pc = "compare"
    /\ arg_a \in Operands
    /\ arg_b \in OtherOperands
    /\ result = <<>>
    /\ cmp = <<>>
    /\ sym = <<>>

machine == <<n_files, files, readable, out_fail, log_open, out_open, reported,
             is_open, pos, eofbit, cur, outputs, pc, idx, max_variant, exit_code,
             history>>

\* arg_a.alleles_eq(arg_b)
CallAllelesEq ==
    /\ pc = "compare"
    /\ result = <<>>
    /\ result' = <<alleles_eq(arg_a, arg_b)>>
    /\ UNCHANGED <<machine, arg_a, arg_b, cmp, sym>>

\* arg_a == arg_b, arg_a < arg_b, arg_a > arg_b and the same the other way round
CallCompare ==
    /\ pc = "compare"
    /\ cmp = <<>>
    /\ cmp' = <<[eq_ab |-> op_eq(arg_a, arg_b), eq_ba |-> op_eq(arg_b, arg_a),
                 eq_aa |-> op_eq(arg_a, arg_a), ne_ab |-> op_ne(arg_a, arg_b),
                 lt_ab |-> op_lt(arg_a, arg_b), lt_ba |-> op_lt(arg_b, arg_a),
                 gt_ab |-> op_gt(arg_a, arg_b), gt_ba |-> op_gt(arg_b, arg_a)]>>
    /\ UNCHANGED <<machine, arg_a, arg_b, result, sym>>

\* alleles_eq called both ways round and on arg_a with itself
CallAllelesEqBothWays ==
    /\ pc = "compare"
    /\ sym = <<>>
    /\ sym' = <<[ab |-> alleles_eq(arg_a, arg_b), ba |-> alleles_eq(arg_b, arg_a),
                 aa |-> alleles_eq(arg_a, arg_a)]>>
    /\ UNCHANGED <<machine, arg_a, arg_b, result, cmp>>

NextCompare ==
    \/ CallAllelesEq
    \/ CallCompare
    \/ CallAllelesEqBothWays

SpecCompare == InitCompare /\ [][NextCompare]_vars

(***************************************************************************)
(* Properties                                                              *)
(***************************************************************************)
\* the last merge-loop iteration has run to its end
IterationDone == it_kind # "none" /\ pc \in {"loop", "done"}

\* since the last check_match a read was made on stream i (no stream is
\* exhausted when check_match runs): a line was extracted or the end was hit
ReadSince(i) == pos[i] # it_pos[i] \/ eofbit[i]

SameLocus(a, b) == a.chrom = b.chrom /\ a.position = b.position

LocusBefore(a, b) ==
    a.chrom < b.chrom \/ (a.chrom = b.chrom /\ a.position < b.position)

NonSentinel(a, b) == {x \in {a.a1, a.a2, b.a1, b.a2} : x # "0"}

Compatible(a, b) == SameLocus(a, b) /\ Cardinality(NonSentinel(a, b)) <= 2

\* every record of the frontier agrees with record 0
FullMatch(li) == \A i \in 1..(n_files - 1) : Compatible(li[i], li[0])

\* C1: for sorted input streams (here: files of records only) the merge
\* loop begins at most as many iterations as the files hold records
C1_IterationsWithinRecordCount ==
    NoBlankLines(files, n_files) => iters <= SumRecords(files, n_files)

\* C2: an iteration whose frontier is a mismatch with all records at one
\* locus makes a read on every stream
C2_SameLocusMismatchAdvancesAll ==
    (/\ IterationDone
     /\ it_kind = "mismatch"
     /\ \A i \in Streams : SameLocus(it_cur[i], it_cur[0]))
    => \A i \in Streams : ReadSince(i)

\* C3 as stated: once some stream is exhausted nothing is evaluated, written
\* or read any more
C3_NothingReadAfterExhaustion ==
    [][(\E i \in Streams : eofbit[i])
       => /\ pos' = pos
          /\ cur' = cur
          /\ outputs' = outputs
          /\ (pc = "loop" => pc' = "done")]_vars

\* C3 amended: once some stream is exhausted no frontier is evaluated and
\* nothing is written; only the read pass in progress goes on, reading the
\* streams of higher index one time each, and after it nothing is read
C3_StopsAfterExhaustion ==
    [][(\E i \in Streams : eofbit[i])
       => /\ outputs' = outputs
          /\ history' = history
          /\ (pc = "loop" => pc' = "done")
          /\ (pc \in {"loop", "done"} => pos' = pos /\ cur' = cur)
          /\ \A j \in Streams :
                (pos'[j] # pos[j] \/ cur'[j] # cur[j])
                => /\ pc \in {"init_read", "read_all", "read_until_max"}
                   /\ j = idx
                   /\ pos'[j] = pos[j] + 1
                   /\ \E i \in Streams : i < j /\ eofbit[i]
          /\ (pc \in {"init_read", "read_all", "read_until_max"}
                => (pc' = pc /\ idx' = idx + 1) \/ pc' = "loop")]_vars

\* C3 witness: the run ended after a match; stream i ran out and stream
\* j > i, read after it in that pass, got a new record that is never evaluated
C3_Witness ==
    /\ pc = "done"
    /\ it_kind = "match"
    /\ \E i \in Streams : \E j \in Streams :
          /\ i < j
          /\ eofbit[i]
          /\ ~eofbit[j]
          /\ pos[j] = it_pos[j] + 1
          /\ cur[j] # it_cur[j]

\* C4: after an iteration whose frontier is a full match, every names list
\* has gained the identifier of its stream's record and nothing else, and
\* one read was made on every stream
C4_MatchAppendsAndAdvancesAll ==
    (IterationDone /\ it_kind = "match")
    => \A i \in Streams :
          /\ names_lists[i] = Append(it_names[i], it_cur[i].name)
          /\ ReadSince(i)
          /\ pos[i] <= it_pos[i] + 1

C4_Witness ==
    /\ pc = "loop"
    /\ it_kind = "match"
    /\ n_files = 2
    /\ \A i \in Streams :
          /\ pos[i] = it_pos[i] + 1
          /\ cur[i] # it_cur[i]
          /\ names_lists[i] = <<it_cur[i].name>>

\* C5: after an iteration whose frontier is not a full match, a stream was
\* read (once) exactly if its record's locus was before the greatest locus
\* of the frontier; the other streams keep cursor and position
C5_MismatchAdvancesOnlyLaggards ==
    (IterationDone /\ it_kind = "mismatch")
    => \A i \in Streams :
          LET lagging == \E j \in Streams : LocusBefore(it_cur[i], it_cur[j])
          IN /\ ReadSince(i) <=> lagging
             /\ pos[i] <= it_pos[i] + 1
             /\ ~lagging => (cur[i] = it_cur[i] /\ pos[i] = it_pos[i])

C5_Witness ==
    /\ pc = "loop"
    /\ it_kind = "mismatch"
    /\ \E i \in Streams : \E j \in Streams :
          /\ LocusBefore(it_cur[i], it_cur[j])
          /\ pos[i] = it_pos[i] + 1
          /\ cur[i] # it_cur[i]
          /\ pos[j] = it_pos[j]
          /\ cur[j] = it_cur[j]

\* C6: check_match reports a full match exactly if every record i >= 1 has
\* the locus of record 0 and at most two non-sentinel alleles together with
\* record 0; A/0, A/G, A/C at one locus is a full match
C6_MatchIsAgainstReferenceOnly ==
    it_kind # "none"
    => /\ (it_kind = "match") <=> FullMatch(it_cur)
       /\ (/\ n_files = 3
           /\ \A i \in Streams : SameLocus(it_cur[i], it_cur[0])
           /\ <<it_cur[0].a1, it_cur[0].a2>> = <<"A", "0">>
           /\ <<it_cur[1].a1, it_cur[1].a2>> = <<"A", "G">>
           /\ <<it_cur[2].a1, it_cur[2].a2>> = <<"A", "C">>) => it_kind = "match"

C6_Witness ==
    /\ it_kind = "match"
    /\ n_files = 3
    /\ <<it_cur[0].a1, it_cur[0].a2>> = <<"A", "0">>
    /\ <<it_cur[1].a1, it_cur[1].a2>> = <<"A", "G">>
    /\ <<it_cur[2].a1, it_cur[2].a2>> = <<"A", "C">>
    /\ ~Compatible(it_cur[1], it_cur[2])

\* C7: alleles_eq(a, b) is true exactly if a and b have the same chromosome
\* and position and their alleles other than "0" are at most two
C7_AllelesEqIsLocusAndTwoAlleles ==
    result # <<>>
    => (result[1] <=> (/\ arg_a.chrom = arg_b.chrom
                       /\ arg_a.position = arg_b.position
                       /\ Cardinality({x \in {arg_a.a1, arg_a.a2, arg_b.a1, arg_b.a2} :
                                          x # "0"}) <= 2))

\* C7 witness: A/0 against G/A at one locus is accepted
C7_Witness ==
    /\ result = <<TRUE>>
    /\ <<arg_a.a1, arg_a.a2>> = <<"A", "0">>
    /\ <<arg_b.a1, arg_b.a2>> = <<"G", "A">>

\* the record written for a matching frontier li
Representative(li) ==
    LET full == {i \in Streams : li[i].a1 # "0" /\ li[i].a2 # "0"}
    IN IF full = {} THEN li[0]
       ELSE li[CHOOSE i \in full : \A j \in full : i <= j]

\* C8: a full match appends one line to matches_bim: the first record of
\* the frontier without a "0" allele, or record 0, with distance "0"
C8_OneRepresentativePerMatch ==
    it_kind = "match"
    => LET r == Representative(it_cur)
       IN matches_bim = Append(it_matches,
                               <<r.chrom, r.name, "0", r.position, r.a1, r.a2>>)

C8_Witness ==
    /\ it_kind = "match"
    /\ it_cur[0].a2 = "0"
    /\ it_cur[1].a2 # "0"
    /\ matches_bim[Len(matches_bim)][2] = it_cur[1].name
    /\ files[1].lines[it_pos[1]][3] # "0"

\* C8 witness of the fallback: every record has a "0" allele
C8_WitnessFallback ==
    /\ it_kind = "match"
    /\ \A i \in Streams : it_cur[i].a2 = "0"
    /\ matches_bim[Len(matches_bim)][2] = it_cur[0].name

\* C9: an iteration whose frontier is not a full match appends nothing to
\* the names lists and to matches_bim, and mismatches_bim stays empty
C9_MismatchWritesNothing ==
    /\ (it_kind # "none" /\ ~FullMatch(it_cur))
          => (names_lists = it_names /\ matches_bim = it_matches)
    /\ mismatches_bim = <<>>

C9_Witness ==
    /\ pc = "loop"
    /\ it_kind = "mismatch"
    /\ ~FullMatch(it_cur)
    /\ Len(matches_bim) = 1
    /\ \A i \in Streams : SameLocus(it_cur[i], it_cur[0])

\* C10: no step lowers a stream's line count or raises it by more than
\* one, and so does no merge-loop iteration as a whole
C10_PositionsMonotonic ==
    /\ [][\A i \in Streams : pos[i] <= pos'[i] /\ pos'[i] <= pos[i] + 1]_vars
    /\ [](it_kind # "none"
            => \A i \in Streams : it_pos[i] <= pos[i] /\ pos[i] <= it_pos[i] + 1)

C10_Witness ==
    /\ pc = "done"
    /\ n_files = 2
    /\ pos[0] = MaxLen
    /\ pos[1] = 1
    /\ it_pos[0] = 1

\* C11: == holds exactly if neither operand is < the other and exactly if
\* chromosome and position agree, whatever the identifiers and alleles; it
\* is reflexive and symmetric; a > b is b < a; any two records are ordered
C11_LocusOrderIsTotal ==
    cmp # <<>>
    => LET c == cmp[1]
       IN /\ c.eq_ab <=> (~c.lt_ab /\ ~c.lt_ba)
          /\ c.eq_ab <=> (arg_a.chrom = arg_b.chrom /\ arg_a.position = arg_b.position)
          /\ c.eq_aa
          /\ c.eq_ab <=> c.eq_ba
          /\ c.ne_ab <=> ~c.eq_ab
          /\ c.gt_ab <=> c.lt_ba
          /\ c.gt_ba <=> c.lt_ab
          /\ ~(c.lt_ab /\ c.lt_ba)
          /\ c.lt_ab <=> (\/ arg_a.chrom < arg_b.chrom
                          \/ (arg_a.chrom = arg_b.chrom /\ arg_a.position < arg_b.position))

\* C11 witness: two records at one locus with other identifiers and alleles
C11_Witness ==
    /\ cmp # <<>>
    /\ cmp[1].eq_ab
    /\ arg_a.name # arg_b.name
    /\ {arg_a.a1, arg_a.a2} \cap {arg_b.a1, arg_b.a2} = {}

\* C11 witness of the order: the chromosome decides against the position
C11_WitnessOrder ==
    /\ cmp # <<>>
    /\ cmp[1].lt_ab
    /\ cmp[1].gt_ba
    /\ arg_a.position > arg_b.position

\* C12: alleles_eq gives the same value both ways round, and is true of a
\* record with itself when the record has an allele other than "0"
C12_AllelesEqSymmetric ==
    sym # <<>>
    => /\ sym[1].ab <=> sym[1].ba
       /\ (arg_a.a1 # "0" \/ arg_a.a2 # "0") => sym[1].aa

\* C12 witness: a pair accepted both ways round whose alleles differ in order
C12_Witness ==
    /\ sym # <<>>
    /\ sym[1].ab
    /\ sym[1].ba
    /\ sym[1].aa
    /\ <<arg_a.a1, arg_a.a2>> = <<"A", "0">>
    /\ <<arg_b.a1, arg_b.a2>> = <<"0", "G">>

\* with fewer than two input files no input stream is opened or read, no
\* merge-loop iteration is begun, nothing is written to the outputs and
\* the run ends with status 1
NothingProcessed ==
    /\ pc \in {"start", "exit"}
    /\ pc = "exit" => exit_code = 1
    /\ pc = "start" => exit_code = -1
    /\ is_open = {}
    /\ \A i \in Streams : pos[i] = 0 /\ ~eofbit[i] /\ cur[i] = Unread
    /\ iters = 0
    /\ it_kind = "none"
    /\ \A i \in Streams : names_lists[i] = <<>>
    /\ matches_bim = <<>>
    /\ mismatches_bim = <<>>

\* C13 as stated: with fewer than two input files the run reports usage
\* and ends with status 1, and nothing is processed
C13_UsageErrorDoesNothing ==
    (n_files < 2 /\ pc # "compare")
    => /\ NothingProcessed
       /\ pc = "exit" => reported = "usage"

\* C13 amended: with fewer than two input files the run ends with status 1
\* and nothing is processed; it reports usage when log.open could open
\* every output file, and the failed output file otherwise
C13_UsageErrorAfterLogOpen ==
    (n_files < 2 /\ pc # "compare")
    => /\ NothingProcessed
       /\ pc = "exit"
          => /\ log_open
             /\ reported = (IF out_fail = 0 THEN "usage" ELSE "could_not_write")
             /\ out_open = (IF out_fail = 0 THEN n_files + 2 ELSE out_fail - 1)

\* C13 witness: one input file with a record in it, every output file was
\* opened and the run has ended with the usage report
C13_Witness ==
    /\ n_files = 1
    /\ Len(files[0].lines) = 1
    /\ pc = "exit"
    /\ exit_code = 1
    /\ log_open
    /\ out_open = 3
    /\ reported = "usage"

\* one input file, bij_matches cannot be opened: no usage report
C13_WitnessLogFails ==
    /\ n_files = 1
    /\ out_fail = 2
    /\ pc = "exit"
    /\ out_open = 1
    /\ reported = "could_not_write"

\* C14: the record max returns has the greatest locus of the frontier and,
\* among the records at that locus, the lowest index
C14_MaxIsFirstGreatest ==
    it_kind = "mismatch"
    => LET greatest(i) == \A j \in Streams : ~LocusBefore(it_cur[i], it_cur[j])
       IN /\ max_variant \in Streams
          /\ greatest(max_variant)
          /\ \A j \in Streams : greatest(j) => max_variant <= j

\* C14 witness: three streams, records 1 and 2 share the greatest locus
C14_Witness ==
    /\ it_kind = "mismatch"
    /\ n_files = 3
    /\ LocusBefore(it_cur[0], it_cur[1])
    /\ SameLocus(it_cur[1], it_cur[2])
    /\ max_variant = 1

\* C14 witness: record 0 keeps the choice against a later record at its locus
C14_WitnessDefault ==
    /\ it_kind = "mismatch"
    /\ n_files = 3
    /\ LocusBefore(it_cur[1], it_cur[0])
    /\ SameLocus(it_cur[0], it_cur[2])
    /\ max_variant = 0

\* the record on the last line of stream i
LastRecord(i) == parse_line(files[i].lines[Len(files[i].lines)])

\* C15: in a run over files of records only, a stream that is the only
\* exhausted one at the end had its last record in the last frontier
\* evaluated; two streams of one record each, at one locus with compatible
\* alleles, give one match group
C15_LastRecordIsEvaluated ==
    (pc = "done" /\ NoBlankLines(files, n_files))
    => /\ \A i \in Streams :
             (/\ eofbit[i]
              /\ pos[i] > 0
              /\ \A j \in Streams : j # i => ~eofbit[j])
             => /\ it_kind # "none"
                /\ it_pos[i] = Len(files[i].lines)
                /\ it_cur[i] = LastRecord(i)
       /\ (/\ n_files = 2
           /\ Len(files[0].lines) = 1
           /\ Len(files[1].lines) = 1
           /\ Compatible(LastRecord(1), LastRecord(0)))
          => /\ Len(matches_bim) = 1
             /\ names_lists[0] = <<LastRecord(0).name>>
             /\ names_lists[1] = <<LastRecord(1).name>>

StrictlyIncreasing(f) ==
    \A a \in 1..Len(f.lines) : \A b \in 1..Len(f.lines) :
        a < b => LocusBefore(parse_line(f.lines[a]), parse_line(f.lines[b]))

\* the lines of file i that hold a record at locus l
LinesAt(i, l) ==
    {j \in 1..Len(files[i].lines) :
        /\ files[i].lines[j] # <<>>
        /\ parse_line(files[i].lines[j]).chrom = l.chrom
        /\ parse_line(files[i].lines[j]).position = l.position}

CommonLocus(l) == \A i \in Streams : LinesAt(i, l) # {}

\* the frontier whose cursors are the records at a common locus l
FrontierAt(l) ==
    [i \in Streams |-> parse_line(files[i].lines[CHOOSE j \in LinesAt(i, l) : TRUE])]

Emitted(li) ==
    \E j \in 1..Len(matches_bim) :
        \A i \in Streams : /\ j <= Len(names_lists[i])
                           /\ names_lists[i][j] = li[i].name

\* C16: for files of strictly increasing records, once the run has stopped
\* every locus common to all streams, with no earlier common locus failing
\* the match, has had its frontier evaluated, and emitted if it matches
C16_CommonLocusIsReached ==
    (/\ pc = "done"
     /\ NoBlankLines(files, n_files)
     /\ \A i \in Streams : StrictlyIncreasing(files[i]))
    => \A l \in Loci :
          (/\ CommonLocus(l)
           /\ \A e \in Loci :
                 (CommonLocus(e) /\ LocusBefore(e, l))
                 => all_match(FrontierAt(e), n_files))
          => /\ FrontierAt(l) \in it_seen
             /\ all_match(FrontierAt(l), n_files) => Emitted(FrontierAt(l))

\* C17: the names lists all have as many entries as matches_bim has lines,
\* and the j-th entries are the names of the records of one evaluated
\* frontier, all at the locus of the j-th line of matches_bim; for a file
\* that does not begin with an empty line the entry names one of its records
C17_NamesListsAligned ==
    /\ \A i \in Streams : Len(names_lists[i]) = Len(matches_bim)
    /\ \A j \in 1..Len(matches_bim) :
          \E li \in it_seen :
              /\ matches_bim[j][1] = li[0].chrom
              /\ matches_bim[j][4] = li[0].position
              /\ \A i \in Streams :
                    /\ names_lists[i][j] = li[i].name
                    /\ SameLocus(li[i], li[0])
                    /\ ~FirstLineBlank(files[i])
                       => \E ln \in LinesAt(i, li[0]) :
                             parse_line(files[i].lines[ln]).name = names_lists[i][j]

\* two match groups of two streams have been written
C17_Witness ==
    /\ n_files = 2
    /\ Len(matches_bim) = 2
    /\ Len(names_lists[0]) = 2
    /\ names_lists[0][1] # names_lists[0][2]
    /\ names_lists[0][2] # names_lists[1][2]

\* one match group of three streams has been written
C17_WitnessThree ==
    /\ n_files = 3
    /\ Len(matches_bim) = 1
    /\ names_lists[2] # <<>>

NoRepeat(s) == \A a \in 1..Len(s) : \A b \in 1..Len(s) : a # b => s[a] # s[b]

\* C18: for files without an empty line, no name is appended twice to a
\* names list, every frontier evaluated holds for each stream the record
\* on the line the stream has reached (never a cursor left by a failed
\* read), and when the loop condition is tested after a match every stream
\* is exhausted or holds the record on the next line
C18_RecordEmittedAtMostOnce ==
    NoBlankLines(files, n_files)
    => /\ \A i \in Streams : NoRepeat(names_lists[i])
       /\ it_kind # "none"
          => \A i \in Streams :
                /\ it_pos[i] >= 1
                /\ it_cur[i] = parse_line(files[i].lines[it_pos[i]])
       /\ (it_kind = "match" /\ pc = "loop")
          => \A i \in Streams :
                \/ eofbit[i] /\ any_eof(eofbit, n_files)
                \/ /\ pos[i] = it_pos[i] + 1
                   /\ cur[i] = parse_line(files[i].lines[pos[i]])
                   /\ cur[i] # it_cur[i]

\* after a match every stream of files without an empty line has moved to
\* its next record and the loop goes on
C18_Witness ==
    /\ NoBlankLines(files, n_files)
    /\ n_files = 2
    /\ it_kind = "match"
    /\ pc = "loop"
    /\ ~any_eof(eofbit, n_files)
    /\ \A i \in Streams : pos[i] = it_pos[i] + 1 /\ cur[i] # it_cur[i]

\* the records of a file are in ascending (chrom, position) order
Ascending(f) ==
    \A a \in 1..Len(f.lines) : \A b \in 1..Len(f.lines) :
        (a < b /\ f.lines[a] # <<>> /\ f.lines[b] # <<>>)
        => ~LocusBefore(parse_line(f.lines[b]), parse_line(f.lines[a]))

\* the records of a file are in strictly ascending (chrom, position) order
StrictlyAscending(f) ==
    \A a \in 1..Len(f.lines) : \A b \in 1..Len(f.lines) :
        (a < b /\ f.lines[a] # <<>> /\ f.lines[b] # <<>>)
        => LocusBefore(parse_line(f.lines[a]), parse_line(f.lines[b]))

\* the locus written on a line of matches_bim
WrittenLocus(line) == [chrom |-> line[1], position |-> line[4]]

\* C19: for files sorted ascending (each beginning with a record, so that
\* every cursor evaluated has been read) the lines of matches_bim are in
\* non-decreasing (chrom, position) order, and in strictly increasing order
\* when every file is strictly ascending
C19_MatchesInLocusOrder ==
    (\A i \in Streams : Ascending(files[i]) /\ ~FirstLineBlank(files[i]))
    => \A a \in 1..Len(matches_bim) : \A b \in 1..Len(matches_bim) :
          a < b
          => /\ ~LocusBefore(WrittenLocus(matches_bim[b]), WrittenLocus(matches_bim[a]))
             /\ (\A i \in Streams : StrictlyAscending(files[i]))
                => LocusBefore(WrittenLocus(matches_bim[a]), WrittenLocus(matches_bim[b]))

====
